---- MODULE Spec2Model ----
(***************************************************************************)
(* Model of the agent data objects of src/actor-critic/agents.py: the      *)
(* property setters of Agent, Predator, Prey, OrientedPredator and         *)
(* OrientedPrey, their constructors, and Agent.procreate; and of the       *)
(* DeepChainMap of src/actor-critic/tools.py.                              *)
(*                                                                         *)
(* A Python value is a record [t, n, s, q]: t is the Python type, n the    *)
(* numeric payload (int, float and bool values, and object references),    *)
(* s the payload of a str and q the payload of a tuple.  Floats are the    *)
(* integral ones (0.0, 1.0, 2.0, ...); NaN and infinities are not drawn.   *)
(***************************************************************************)
EXTENDS Integers, Sequences, FiniteSets, TLC

VARIABLES agents, kwHeap, memHeap, last, maps

vars == <<agents, kwHeap, memHeap, last, maps>>

\* ------------------------------------------------------------------ bounds
MaxAgents == 2      \* instances alive at once (the founder and its lineage)
MaxFood == 2        \* largest food value drawn as an input
MaxGen == 1         \* largest generation drawn as an input
MaxMem == 1         \* entries appended to memory sequences in all
MaxLayers == 2      \* layers of a DeepChainMap

\* ------------------------------------------------------------ Python values
IntV(k) == [t |-> "int", n |-> k, s |-> "", q |-> <<>>]
FloatV(k) == [t |-> "float", n |-> k, s |-> "", q |-> <<>>]
BoolV(b) == [t |-> "bool", n |-> IF b THEN 1 ELSE 0, s |-> "", q |-> <<>>]
StrV(str) == [t |-> "str", n |-> 0, s |-> str, q |-> <<>>]
TupV(seq) == [t |-> "tuple", n |-> 0, s |-> "", q |-> seq]
RefV(id) == [t |-> "ref", n |-> id, s |-> "", q |-> <<>>]
NoneV == [t |-> "None", n |-> 0, s |-> "", q |-> <<>>]
\* the value of a slot the class does not declare
NoSlot == [t |-> "noslot", n |-> 0, s |-> "", q |-> <<>>]

\* isinstance(x, int): bool is a subclass of int
IsInt(x) == x.t \in {"int", "bool"}
\* isinstance(x, float)
IsFloat(x) == x.t = "float"
\* isinstance(x, (int, float))
IsNumber(x) == IsInt(x) \/ IsFloat(x)
\* bool(x), the test behind `if x:`
Truthy(x) ==
    CASE x.t \in {"int", "float", "bool"} -> x.n # 0
      [] x.t = "str" -> x.s # ""
      [] x.t = "tuple" -> Len(x.q) > 0
      [] x.t = "ref" -> TRUE
      [] OTHER -> FALSE

\* ---------------------------------------------------------- class hierarchy
Classes == {"Agent", "Predator", "Prey", "OrientedPredator", "OrientedPrey"}
IsPredator(cls) == cls \in {"Predator", "OrientedPredator"}
IsPrey(cls) == cls \in {"Prey", "OrientedPrey"}
IsOriented(cls) == cls \in {"OrientedPredator", "OrientedPrey"}

AgentHEIRSHIP == <<"max_food_reserve", "generation", "p_breed", "_kwargs">>
PredatorHEIRSHIP == AgentHEIRSHIP \o <<"p_eat">>
PreyHEIRSHIP == AgentHEIRSHIP \o <<"p_flee">>
HEIRSHIP(cls) ==
    CASE cls = "Agent" -> AgentHEIRSHIP
      [] IsPredator(cls) -> PredatorHEIRSHIP
      [] IsPrey(cls) -> PreyHEIRSHIP

\* the outcome of a setter or a call: the object afterwards and "ok" or the
\* exception raised
Ok(obj) == [obj |-> obj, res |-> "ok"]
Raise(obj, exc) == [obj |-> obj, res |-> exc]
\* sequencing of statements: an exception ends the remaining ones
Then(r, F(_)) == IF r.res = "ok" THEN F(r.obj) ELSE r

\* ------------------------------------------------------------- Agent setters
set_food_reserve(self, food_reserve) ==
    IF ~IsNumber(food_reserve) THEN Raise(self, "TypeError")
    ELSE IF food_reserve.n < 0 THEN Raise(self, "ValueError")
    ELSE IF Truthy(self.max_food_reserve)
         THEN IF food_reserve.n >= self.max_food_reserve.n
              THEN Ok([self EXCEPT !.food_reserve = self.max_food_reserve])
              ELSE Ok([self EXCEPT !.food_reserve = food_reserve])
    ELSE Ok([self EXCEPT !.food_reserve = food_reserve])

set_max_food_reserve(self, max_food_reserve) ==
    IF ~IsNumber(max_food_reserve) THEN Raise(self, "TypeError")
    ELSE IF max_food_reserve.n < self.food_reserve.n
         THEN Raise(self, "ValueError")
    ELSE IF Truthy(self.max_food_reserve) THEN Raise(self, "RuntimeError")
    ELSE Ok([self EXCEPT !.max_food_reserve = max_food_reserve])

\* set_generation with `is not None` for the truth test of the guard
set_generation_is_set(self, generation) ==
    IF ~IsInt(generation) THEN Raise(self, "TypeError")
    ELSE IF generation.n < 0 THEN Raise(self, "ValueError")
    ELSE IF self.generation.t # "None" THEN Raise(self, "RuntimeError")
    ELSE Ok([self EXCEPT !.generation = generation])

\* set_generation with the assignment placed ahead of the already-set check
set_generation_early_store(self, generation) ==
    IF ~IsInt(generation) THEN Raise(self, "TypeError")
    ELSE IF generation.n < 0 THEN Raise(self, "ValueError")
    ELSE IF Truthy(self.generation)
         THEN Raise([self EXCEPT !.generation = generation], "RuntimeError")
    ELSE Ok([self EXCEPT !.generation = generation])

set_generation(self, generation) ==
    IF ~IsInt(generation) THEN Raise(self, "TypeError")
    ELSE IF generation.n < 0 THEN Raise(self, "ValueError")
    ELSE IF Truthy(self.generation) THEN Raise(self, "RuntimeError")
    ELSE Ok([self EXCEPT !.generation = generation])

\* set_p_breed with the upper bound of the range check left out
set_p_breed_no_upper(self, p_breed) ==
    IF ~IsFloat(p_breed) THEN Raise(self, "TypeError")
    ELSE IF p_breed.n < 0 THEN Raise(self, "ValueError")
    ELSE Ok([self EXCEPT !.p_breed = p_breed])

set_p_breed(self, p_breed) ==
    IF ~IsFloat(p_breed) THEN Raise(self, "TypeError")
    ELSE IF p_breed.n < 0 \/ p_breed.n > 1 THEN Raise(self, "ValueError")
    ELSE Ok([self EXCEPT !.p_breed = p_breed])

set_kin(self, kin) ==
    IF kin.t # "str" THEN Raise(self, "TypeError")
    ELSE Ok([self EXCEPT !.kin = kin])

set_memory(self, memory) ==
    IF memory.t # "tuple" THEN Raise(self, "TypeError")
    ELSE IF self.memory.t # "None" THEN Raise(self, "RuntimeError")
    ELSE Ok([self EXCEPT !.memory = memory])

\* ------------------------------------------------- Predator and Prey setters
set_p_eat(self, p_eat) ==
    IF ~IsFloat(p_eat) THEN Raise(self, "TypeError")
    ELSE IF p_eat.n < 0 \/ p_eat.n > 1 THEN Raise(self, "ValueError")
    ELSE Ok([self EXCEPT !.p_eat = p_eat])

set_p_flee(self, p_flee) ==
    IF ~IsFloat(p_flee) THEN Raise(self, "TypeError")
    ELSE IF p_flee.n < 0 \/ p_flee.n > 1 THEN Raise(self, "ValueError")
    ELSE Ok([self EXCEPT !.p_flee = p_flee])

set_got_eaten(self, got_eaten) ==
    IF got_eaten.t # "bool" THEN Raise(self, "TypeError")
    ELSE Ok([self EXCEPT !.got_eaten = got_eaten])

\* ------------------------------------------- OrientedPredator / OrientedPrey
RECURSIVE set_orient(_, _, _)

\* rnd.y is rd.choice([-1, 0, 1]), rnd.x is rd.choice([-1, 1]), drawn only
\* when y is 0, and rnd.swap tells whether np.random.shuffle exchanged the
\* two entries
\* _generate_orient with x drawn whatever y is
_generate_orient_both(self, rnd) ==
    LET y == rnd.y
        x == rnd.x
        orient == IF rnd.swap THEN <<x, y>> ELSE <<y, x>>
    IN  set_orient(self, TupV(orient), rnd)

_generate_orient(self, rnd) ==
    LET y == rnd.y
        x == IF y = 0 THEN rnd.x ELSE 0
        orient == IF rnd.swap THEN <<x, y>> ELSE <<y, x>>
    IN  set_orient(self, TupV(orient), rnd)

set_orient(self, orient, rnd) ==
    IF orient.t = "None" THEN _generate_orient(self, rnd)
    ELSE IF orient.t # "tuple" \/ Len(orient.q) > 2
         THEN Raise(self, "TypeError")
    ELSE Ok([self EXCEPT !.orient = orient])

\* the draws of the random generators
RandomDraws ==
    {d \in [y : {-1, 0, 1}, x : {-1, 1}, swap : BOOLEAN] :
        d.y # 0 => d.x = 1}
\* the draws a call on an instance of cls consumes: only the oriented classes
\* draw at all
DrawsOf(cls) ==
    IF IsOriented(cls) THEN RandomDraws
    ELSE {[y |-> 0, x |-> 1, swap |-> FALSE]}
\* every orientation _generate_orient can store
GeneratedOrients ==
    {_generate_orient([orient |-> TupV(<<0, 0>>)], rnd).obj.orient.q :
        rnd \in RandomDraws}

\* -------------------------------------------------------------- constructors
\* the memory record made by memory(deque(), deque(), deque()): a tuple whose
\* three sequences live in memHeap[id]
MemV(id) == [t |-> "tuple", n |-> id, s |-> "", q |-> <<>>]
EmptyMemory == [States |-> <<>>, Rewards |-> <<>>, Actions |-> <<>>]

\* the keyword arguments of a constructor call that leaves all defaults
DefaultArgs(food_reserve) ==
    [food_reserve |-> food_reserve, max_food_reserve |-> NoneV,
     generation |-> NoneV, p_breed |-> FloatV(1), kin |-> NoneV,
     mem |-> NoneV, p_eat |-> FloatV(1), p_flee |-> FloatV(0),
     orient |-> NoneV]

\* Agent.__init__; kwref and memref are the identities of the kwargs dict of
\* the call and of the fresh memory record
AgentInit(cls, a, kin, kwref, memref) ==
    LET blank == [cls |-> cls, food_reserve |-> IntV(0),
                  max_food_reserve |-> NoneV, generation |-> NoneV,
                  p_breed |-> FloatV(1), kin |-> NoneV,
                  _kwargs |-> RefV(kwref), memory |-> NoneV,
                  p_eat |-> NoSlot, p_flee |-> NoSlot,
                  got_eaten |-> NoSlot, orient |-> NoSlot]
        r1 == set_food_reserve(blank, a.food_reserve)
        r2 == Then(r1, LAMBDA o : set_p_breed(o, a.p_breed))
        r3 == Then(r2, LAMBDA o :
                  IF Truthy(kin) THEN set_kin(o, kin)
                  ELSE set_kin(o, StrV(cls)))
        r4 == Then(r3, LAMBDA o :
                  IF Truthy(a.max_food_reserve)
                  THEN set_max_food_reserve(o, a.max_food_reserve)
                  ELSE Ok(o))
        r5 == Then(r4, LAMBDA o :
                  IF a.generation.t # "None"
                  THEN set_generation(o, a.generation)
                  ELSE Ok(o))
    IN  Then(r5, LAMBDA o :
            IF a.mem.t # "None" THEN set_memory(o, a.mem)
            ELSE set_memory(o, MemV(memref)))

\* Predator.__init__
PredatorInit(cls, a, kwref, memref) ==
    Then(AgentInit(cls, a, StrV(cls), kwref, memref), LAMBDA o :
        set_p_eat([o EXCEPT !.p_eat = FloatV(1)], a.p_eat))

\* Prey.__init__
PreyInit(cls, a, kwref, memref) ==
    Then(AgentInit(cls, a, StrV(cls), kwref, memref), LAMBDA o :
        LET o1 == [o EXCEPT !.p_flee = FloatV(0), !.got_eaten = BoolV(FALSE)]
        IN  IF a.p_flee.t # "None" THEN set_p_flee(o1, a.p_flee) ELSE Ok(o1))

\* cls(**a): the __init__ chain of the concrete class
Construct(cls, a, kwref, memref, rnd) ==
    CASE cls = "Agent" -> AgentInit(cls, a, a.kin, kwref, memref)
      [] cls = "Predator" -> PredatorInit(cls, a, kwref, memref)
      [] cls = "Prey" -> PreyInit(cls, a, kwref, memref)
      [] cls = "OrientedPredator" ->
            Then(PredatorInit(cls, a, kwref, memref), LAMBDA o :
                set_orient([o EXCEPT !.orient = TupV(<<0, 0>>)], a.orient, rnd))
      [] cls = "OrientedPrey" ->
            Then(PreyInit(cls, a, kwref, memref), LAMBDA o :
                set_orient([o EXCEPT !.orient = TupV(<<0, 0>>)], a.orient, rnd))

\* ---------------------------------------------------------------- procreate
\* setattr(obj, attr, value): the property setter, or the slot itself for
\* '_kwargs', which has no property
SetAttr(obj, attr, value) ==
    CASE attr = "max_food_reserve" -> set_max_food_reserve(obj, value)
      [] attr = "generation" -> set_generation(obj, value)
      [] attr = "p_breed" -> set_p_breed(obj, value)
      [] attr = "p_eat" -> set_p_eat(obj, value)
      [] attr = "p_flee" -> set_p_flee(obj, value)
      [] attr = "_kwargs" -> Ok([obj EXCEPT !._kwargs = value])

\* the loop body with generation copied as it is
InheritAttr_no_increment(offspring, self, attr) ==
    LET parent_attr == self[attr]
    IN  IF parent_attr.t # "None"
        THEN SetAttr(offspring, attr, parent_attr)
        ELSE Ok(offspring)

\* the loop body with `if parent_attr:` for `if parent_attr is not None:`
InheritAttr_truthy(offspring, self, attr) ==
    LET parent_attr == self[attr]
    IN  IF Truthy(parent_attr)
        THEN IF attr = "generation"
             THEN SetAttr(offspring, attr,
                          [parent_attr EXCEPT !.n = parent_attr.n + 1])
             ELSE SetAttr(offspring, attr, parent_attr)
        ELSE Ok(offspring)

\* one pass of the loop body of procreate
InheritAttr(offspring, self, attr) ==
    LET parent_attr == self[attr]
    IN  IF parent_attr.t # "None"
        THEN IF attr = "generation"
             THEN SetAttr(offspring, attr,
                          [parent_attr EXCEPT !.n = parent_attr.n + 1])
             ELSE SetAttr(offspring, attr, parent_attr)
        ELSE Ok(offspring)

RECURSIVE InheritFrom(_, _, _)
\* the loop `for attr in self.HEIRSHIP` from position k on
InheritFrom(r, self, k) ==
    IF k > Len(HEIRSHIP(self.cls)) THEN r
    ELSE InheritFrom(
            Then(r, LAMBDA o : InheritAttr(o, self, HEIRSHIP(self.cls)[k])),
            self, k + 1)

_procreate_empty(cls, food_reserve, kwref, memref, rnd) ==
    Construct(cls, DefaultArgs(food_reserve), kwref, memref, rnd)

\* procreate with the food reserve assigned after the inheritance loop
procreate_inherit_first(self, food_reserve, kwref, memref, rnd) ==
    Then(InheritFrom(_procreate_empty(self.cls, IntV(0), kwref, memref, rnd),
                     self, 1),
         LAMBDA o : set_food_reserve(o, food_reserve))

\* self.procreate(food_reserve=...): the offspring, or the exception raised
procreate(self, food_reserve, kwref, memref, rnd) ==
    InheritFrom(_procreate_empty(self.cls, food_reserve, kwref, memref, rnd),
                self, 1)

\* ------------------------------------------------------------------- inputs
FoodInputs == {IntV(k) : k \in -1..MaxFood} \cup {StrV("much")}
CeilingInputs == {IntV(k) : k \in 0..MaxFood - 1} \cup {StrV("much")}
GenerationInputs == {IntV(k) : k \in -1..MaxGen} \cup {FloatV(1)}
ProbabilityInputs == {FloatV(-1), FloatV(0), FloatV(1), FloatV(2), IntV(1)}
KinInputs == {StrV("Wolf"), IntV(7)}
MemoryInputs == {TupV(<<>>), StrV("log")}
GotEatenInputs == {BoolV(TRUE), BoolV(FALSE), IntV(1)}
OrientInputs == {NoneV, TupV(<<1, 1>>), TupV(<<1, 0, 0>>), StrV("north")}
ProcreateInputs == {IntV(-1), IntV(0), IntV(MaxFood), StrV("much")}
\* the founder is constructed with all defaults or with every optional
\* argument away from its default
Profiles ==
    {DefaultArgs(IntV(0)),
     [DefaultArgs(IntV(0)) EXCEPT !.p_breed = FloatV(0), !.p_eat = FloatV(0),
                                  !.p_flee = FloatV(1), !.kin = StrV("Wolf")]}
ConstructorInputs ==
    {[a EXCEPT !.food_reserve = f, !.max_food_reserve = m, !.generation = g] :
        a \in Profiles,
        f \in {IntV(0), IntV(MaxFood - 1)},
        m \in {NoneV, IntV(0), IntV(MaxFood - 1)},
        g \in {NoneV, IntV(0), IntV(MaxGen)}}
\* a dict is the set of its <<key, value>> items; the founder is constructed
\* with the extra keyword speed=1
FounderKwargs == {<<"speed", 1>>}

\* the record of the latest operation: its name, the instance it was called
\* on, its argument and "ok" or the exception it raised
Event(op, who, arg, res) == [op |-> op, who |-> who, arg |-> arg, res |-> res]

\* -------------------------------------------------------------------- state
\* the driver constructs one instance (the founder)
Init ==
    \E cls \in Classes, a \in ConstructorInputs :
        \E rnd \in DrawsOf(cls) :
            LET r == Construct(cls, a, 1, 1, rnd)
            IN  /\ r.res = "ok"
                /\ agents = <<r.obj>>
                /\ kwHeap = <<FounderKwargs>>
                /\ memHeap = <<EmptyMemory>>
                /\ last = Event("construct", 1, a.food_reserve, "ok")
                /\ maps = <<>>

\* attribute writes are exercised on the founder, until it breeds
Writable(i) == i \in 1..Len(agents) /\ Len(agents) = 1

\* obj.<name> = value, with the outcome r of the setter
Assign(i, name, value, r) ==
    /\ agents' = [agents EXCEPT ![i] = r.obj]
    /\ last' = Event(name, i, value, r.res)
    /\ UNCHANGED <<kwHeap, memHeap, maps>>

WriteFoodReserve ==
    \E i \in 1..Len(agents), v \in FoodInputs :
        /\ Writable(i)
        /\ Assign(i, "food_reserve", v, set_food_reserve(agents[i], v))

WriteMaxFoodReserve ==
    \E i \in 1..Len(agents), v \in CeilingInputs :
        /\ Writable(i)
        /\ Assign(i, "max_food_reserve", v,
                  set_max_food_reserve(agents[i], v))

WriteGeneration ==
    \E i \in 1..Len(agents), v \in GenerationInputs :
        /\ Writable(i)
        /\ Assign(i, "generation", v, set_generation(agents[i], v))

WritePBreed ==
    \E i \in 1..Len(agents), v \in ProbabilityInputs :
        /\ Writable(i)
        /\ Assign(i, "p_breed", v, set_p_breed(agents[i], v))

WriteKin ==
    \E i \in 1..Len(agents), v \in KinInputs :
        /\ Writable(i)
        /\ Assign(i, "kin", v, set_kin(agents[i], v))

WriteMemory ==
    \E i \in 1..Len(agents), v \in MemoryInputs :
        /\ Writable(i)
        /\ Assign(i, "memory", v, set_memory(agents[i], v))

WritePEat ==
    \E i \in 1..Len(agents), v \in ProbabilityInputs :
        /\ Writable(i)
        /\ IsPredator(agents[i].cls)
        /\ Assign(i, "p_eat", v, set_p_eat(agents[i], v))

WritePFlee ==
    \E i \in 1..Len(agents), v \in ProbabilityInputs :
        /\ Writable(i)
        /\ IsPrey(agents[i].cls)
        /\ Assign(i, "p_flee", v, set_p_flee(agents[i], v))

WriteGotEaten ==
    \E i \in 1..Len(agents), v \in GotEatenInputs :
        /\ Writable(i)
        /\ IsPrey(agents[i].cls)
        /\ Assign(i, "got_eaten", v, set_got_eaten(agents[i], v))

WriteOrient ==
    \E i \in 1..Len(agents), v \in OrientInputs, rnd \in RandomDraws :
        /\ Writable(i)
        /\ IsOriented(agents[i].cls)
        /\ Assign(i, "orient", v, set_orient(agents[i], v, rnd))

\* the draws explored for the orientation of an offspring: orient is not
\* heritable and procreate does not read it, so the first draw is taken to be
\* non-zero and the shuffle to leave the order
BreedingDraws(cls) == {d \in DrawsOf(cls) : IsOriented(cls) => d.y # 0 /\ ~d.swap}

\* parent.procreate(food_reserve=f); the offspring joins the population
Procreate ==
    \E i \in 1..Len(agents), f \in ProcreateInputs :
        \E rnd \in BreedingDraws(agents[i].cls) :
            LET id == Len(agents) + 1
                r == procreate(agents[i], f, id, id, rnd)
            IN  /\ Len(agents) < MaxAgents
                /\ last' = Event("procreate", i, f, r.res)
                /\ IF r.res = "ok"
                   THEN /\ agents' = Append(agents, r.obj)
                        /\ kwHeap' = Append(kwHeap, {})
                        /\ memHeap' = Append(memHeap, EmptyMemory)
                   ELSE UNCHANGED <<agents, kwHeap, memHeap>>
                /\ UNCHANGED maps

\* obj._kwargs['speed'] = 2, an in-place change of the retained dict
MutateKwargs ==
    \E i \in 1..Len(agents) :
        LET ref == agents[i]._kwargs.n
            d == {item \in kwHeap[ref] : item[1] # "speed"}
                    \cup {<<"speed", 2>>}
        IN  /\ d # kwHeap[ref]
            /\ kwHeap' = [kwHeap EXCEPT ![ref] = d]
            /\ last' = Event("mutate_kwargs", i, IntV(2), "ok")
            /\ UNCHANGED <<agents, memHeap, maps>>

\* the entries appended to the memory sequences so far
RECURSIVE Appended(_)
Appended(k) ==
    IF k = 0 THEN 0 ELSE Len(memHeap[k].States) + Appended(k - 1)

\* obj.memory.States.append(state), an in-place change of the memory record
AppendMemory ==
    \E i \in 1..Len(agents) :
        LET ref == agents[i].memory.n
        IN  /\ Appended(Len(memHeap)) < MaxMem
            /\ memHeap' = [memHeap EXCEPT ![ref].States = Append(@, 1)]
            /\ last' = Event("append_memory", i, IntV(1), "ok")
            /\ UNCHANGED <<agents, kwHeap, maps>>

\* one instance and the writes of its fields
Next ==
    \/ WriteFoodReserve
    \/ WriteMaxFoodReserve
    \/ WriteGeneration
    \/ WritePBreed
    \/ WriteKin
    \/ WriteMemory
    \/ WritePEat
    \/ WritePFlee
    \/ WriteGotEaten
    \/ WriteOrient

Spec == Init /\ [][Next]_vars

\* a founder, its ceiling, and the lineage it breeds
NextLineage ==
    \/ WriteMaxFoodReserve
    \/ Procreate
    \/ MutateKwargs
    \/ AppendMemory

SpecLineage == Init /\ [][NextLineage]_vars

\* ------------------------------------------------------------------- claims
\* what can be observed through instance j: its fields, its retained keyword
\* dict and its memory sequences
View(j) ==
    [obj |-> agents[j],
     kwargs |-> kwHeap[agents[j]._kwargs.n],
     memory |-> memHeap[agents[j].memory.n]]

\* the latest operation was procreate and returned an offspring
Bred == last.op = "procreate" /\ last.res = "ok"
\* the parent and the offspring of the latest procreate
Parent == agents[last.who]
Offspring == agents[Len(agents)]
\* a valid food_reserve argument: a non-negative number
ValidFood(f) == IsNumber(f) /\ f.n >= 0
InUnitInterval(p) == IsFloat(p) /\ p.n >= 0 /\ p.n <= 1
ProbabilityFields == {"p_breed", "p_eat", "p_flee"}
ValidatedFields ==
    {"food_reserve", "max_food_reserve", "generation", "p_breed", "kin",
     "memory", "p_eat", "p_flee", "got_eaten", "orient"}
UnitDirections == {<<1, 0>>, <<-1, 0>>, <<0, 1>>, <<0, -1>>}
Abs(k) == IF k < 0 THEN -k ELSE k

\* C1: food_reserve >= 0 always, and food_reserve <= max_food_reserve
\* whenever max_food_reserve holds a value other than None.
C1_FoodWithinCeiling ==
    \A i \in 1..Len(agents) :
        /\ agents[i].food_reserve.n >= 0
        /\ agents[i].max_food_reserve.t # "None" =>
              agents[i].food_reserve.n <= agents[i].max_food_reserve.n

\* C2: a write of any number to max_food_reserve after it has been set fails
\* with RuntimeError and leaves the stored ceiling unchanged.
C2_SecondCeilingWriteFails ==
    [][(/\ last'.op = "max_food_reserve"
        /\ IsNumber(last'.arg)
        /\ agents[last'.who].max_food_reserve.t # "None")
          => /\ last'.res = "RuntimeError"
             /\ agents'[last'.who].max_food_reserve
                   = agents[last'.who].max_food_reserve]_vars

\* C3: once max_food_reserve, generation or memory holds a value, no
\* operation changes it.
C3_SetOnceNeverChanges ==
    [][\A i \in 1..Len(agents) :
          /\ agents[i].max_food_reserve.t # "None" =>
                agents'[i].max_food_reserve = agents[i].max_food_reserve
          /\ agents[i].generation.t # "None" =>
                agents'[i].generation = agents[i].generation
          /\ agents[i].memory.t # "None" =>
                agents'[i].memory = agents[i].memory]_vars

\* C4: a write to a validated field that raises leaves every field of the
\* instance, and everything reachable from it, as it was.
C4_FailedWriteChangesNothing ==
    [][(last'.op \in ValidatedFields /\ last'.res # "ok")
          => /\ agents' = agents
             /\ kwHeap' = kwHeap
             /\ memHeap' = memHeap]_vars

C4_Witness ==
    /\ last.op = "generation"
    /\ last.res = "RuntimeError"
    /\ agents[last.who].generation.n # last.arg.n

C6_AsStated ==
    (last.op = "procreate" /\ ValidFood(last.arg)) =>
        /\ last.res = "ok"
        /\ Offspring.food_reserve = last.arg

\* C6 amended: procreate with a valid f returns an offspring whose
\* food_reserve is exactly f when the parent has no ceiling or f does not
\* exceed it; when f exceeds the parent's ceiling it raises ValueError.
C6_OffspringFood ==
    (last.op = "procreate" /\ ValidFood(last.arg)) =>
        IF /\ Parent.max_food_reserve.t # "None"
           /\ last.arg.n > Parent.max_food_reserve.n
        THEN last.res = "ValueError"
        ELSE last.res = "ok" /\ Offspring.food_reserve = last.arg

C6_Witness ==
    /\ Bred
    /\ Parent.max_food_reserve.t # "None"
    /\ Parent.max_food_reserve.n > 0
    /\ Parent.food_reserve.n = Parent.max_food_reserve.n
    /\ last.arg.n < Parent.food_reserve.n
    /\ Offspring.food_reserve = last.arg
    /\ Offspring.max_food_reserve = Parent.max_food_reserve

ConstructorDefault(attr) ==
    _procreate_empty(Parent.cls, last.arg, Len(agents), Len(agents),
                     CHOOSE rnd \in DrawsOf(Parent.cls) : TRUE).obj[attr]
\* the value procreate gives the offspring when it copies attr
Copied(attr) ==
    IF attr = "generation"
    THEN [Parent[attr] EXCEPT !.n = Parent[attr].n + 1]
    ELSE Parent[attr]
HeirshipOf(cls) == {HEIRSHIP(cls)[k] : k \in 1..Len(HEIRSHIP(cls))}

\* C8 as stated: an attribute of HEIRSHIP is copied exactly when the parent's
\* value is non-zero and non-empty; otherwise the offspring keeps the
\* constructor default.
C8_AsStated ==
    Bred =>
        \A attr \in HeirshipOf(Parent.cls) :
            IF Truthy(Parent[attr])
            THEN Offspring[attr] = Copied(attr)
            ELSE Offspring[attr] = ConstructorDefault(attr)

\* C8 amended: in every procreate that returns, an attribute of HEIRSHIP is
\* copied exactly when the parent's value is not None, zero values included;
\* only a None leaves the offspring its constructor default.
C8_CopiedUnlessNone ==
    Bred =>
        \A attr \in HeirshipOf(Parent.cls) :
            IF Parent[attr].t # "None"
            THEN Offspring[attr] = Copied(attr)
            ELSE Offspring[attr] = ConstructorDefault(attr)

C8_Witness ==
    /\ Bred
    /\ Parent.p_breed = FloatV(0)
    /\ Parent.generation = IntV(0)
    /\ Offspring.p_breed = FloatV(0)
    /\ Offspring.generation = IntV(1)

\* C9: procreate changes nothing observable through an existing instance,
\* and an in-place change made through one instance is observable through
\* no other.
C9_NoSharedState ==
    [][/\ last'.op = "procreate" =>
              \A j \in 1..Len(agents) : View(j)' = View(j)
       /\ last'.op \in {"mutate_kwargs", "append_memory"} =>
              \A j \in (1..Len(agents)) \ {last'.who} : View(j)' = View(j)]_vars

\* C10: an auto-generated orient has one component +1 or -1 and the other 0,
\* and the orientations that can be generated are exactly the four unit
\* directions.
C10_GeneratedOrientIsUnit ==
    /\ GeneratedOrients = UnitDirections
    /\ \A i \in 1..Len(agents) :
          (/\ IsOriented(agents[i].cls)
           /\ \/ last.op = "construct"
              \/ last.op = "orient" /\ last.who = i /\ last.arg = NoneV)
             => /\ last.res = "ok"
                /\ Len(agents[i].orient.q) = 2
                /\ Abs(agents[i].orient.q[1]) + Abs(agents[i].orient.q[2]) = 1

C10_Witness ==
    /\ last.op = "orient"
    /\ last.arg = NoneV
    /\ agents[last.who].cls = "OrientedPrey"
    /\ agents[last.who].orient.q = <<0, -1>>

\* C12: a valid food_reserve written above a ceiling that is not None is
\* stored as the ceiling; a valid value not above the ceiling, or written
\* when the ceiling is None, is stored as given.
C12_ClampedToCeiling ==
    (last.op = "food_reserve" /\ ValidFood(last.arg)) =>
        /\ last.res = "ok"
        /\ IF /\ agents[last.who].max_food_reserve.t # "None"
              /\ last.arg.n > agents[last.who].max_food_reserve.n
           THEN agents[last.who].food_reserve
                    = agents[last.who].max_food_reserve
           ELSE agents[last.who].food_reserve.n = last.arg.n

\* a valid generation argument: a non-negative int
ValidGeneration(g) == IsInt(g) /\ g.n >= 0

\* C13: a valid write to generation succeeds and replaces the value while
\* generation is 0 (or None), and fails with RuntimeError, changing nothing,
\* once generation is non-zero.
C13_ZeroGenerationIsUnset ==
    [][(last'.op = "generation" /\ ValidGeneration(last'.arg)) =>
          IF agents[last'.who].generation.t = "None"
                \/ agents[last'.who].generation.n = 0
          THEN /\ last'.res = "ok"
               /\ agents'[last'.who].generation = last'.arg
          ELSE /\ last'.res = "RuntimeError"
               /\ agents'[last'.who].generation
                     = agents[last'.who].generation]_vars

C13_Witness ==
    /\ last.op = "generation"
    /\ last.arg = IntV(0)
    /\ last.res = "RuntimeError"
    /\ agents[last.who].generation = IntV(MaxGen)

\* ------------------------------------------------------------- DeepChainMap
\* A dict is a function from the keys it holds to their values; maps is the
\* list self.maps of a DeepChainMap, the first layer first.
Keys == {"a", "b"}
Values == {1, 2}
Dicts == UNION {[S -> Values] : S \in SUBSET Keys}
ChainInputs == UNION {[1..n -> Dicts] : n \in 1..MaxLayers}

\* mapping[key] = value
Put(mapping, key, value) ==
    [k \in DOMAIN mapping \cup {key} |->
        IF k = key THEN value ELSE mapping[k]]
\* del mapping[key]
Drop(mapping, key) == [k \in DOMAIN mapping \ {key} |-> mapping[k]]

RECURSIVE setitem_from(_, _, _, _)
\* the loop `for mapping in self.maps` of __setitem__ from layer k on, and
\* the statement after it
setitem_from(layers, k, key, value) ==
    IF k > Len(layers)
    THEN [layers EXCEPT ![1] = Put(@, key, value)]
    ELSE IF key \in DOMAIN layers[k]
         THEN [layers EXCEPT ![k] = Put(@, key, value)]
         ELSE setitem_from(layers, k + 1, key, value)

\* ChainMap.__setitem__, which DeepChainMap overrides: always the first layer
ChainMap_setitem(layers, key, value) ==
    [layers EXCEPT ![1] = Put(@, key, value)]

\* DeepChainMap.__setitem__: the layers afterwards
__setitem__(layers, key, value) == setitem_from(layers, 1, key, value)

RECURSIVE delitem_from(_, _, _)
\* the loop of __delitem__ from layer k on, and the raise after it
delitem_from(layers, k, key) ==
    IF k > Len(layers)
    THEN [maps |-> layers, res |-> "KeyError"]
    ELSE IF key \in DOMAIN layers[k]
         THEN [maps |-> [layers EXCEPT ![k] = Drop(@, key)], res |-> "ok"]
         ELSE delitem_from(layers, k + 1, key)

\* DeepChainMap.__delitem__: the layers afterwards and "ok" or "KeyError"
__delitem__(layers, key) == delitem_from(layers, 1, key)

\* the key and the value of a chain map operation, as the argument of an Event
ItemV(key, value) == [t |-> "item", n |-> value, s |-> key, q |-> <<>>]

\* DeepChainMap(*layers)
InitChainMap ==
    /\ maps \in ChainInputs
    /\ agents = <<>>
    /\ kwHeap = <<>>
    /\ memHeap = <<>>
    /\ last = Event("DeepChainMap", 0, NoneV, "ok")

\* chain[key] = value
SetItem ==
    \E key \in Keys, value \in Values :
        /\ maps' = __setitem__(maps, key, value)
        /\ last' = Event("__setitem__", 0, ItemV(key, value), "ok")
        /\ UNCHANGED <<agents, kwHeap, memHeap>>

\* del chain[key]
DelItem ==
    \E key \in Keys :
        LET r == __delitem__(maps, key)
        IN  /\ maps' = r.maps
            /\ last' = Event("__delitem__", 0, ItemV(key, 0), r.res)
            /\ UNCHANGED <<agents, kwHeap, memHeap>>

NextChainMap ==
    \/ SetItem
    \/ DelItem

SpecChainMap == InitChainMap /\ [][NextChainMap]_vars

\* the first layer, in search order, that holds key; 0 when none does
FirstLayerWith(layers, key) ==
    IF \E j \in 1..Len(layers) : key \in DOMAIN layers[j]
    THEN CHOOSE j \in 1..Len(layers) :
            /\ key \in DOMAIN layers[j]
            /\ \A i \in 1..(j - 1) : key \notin DOMAIN layers[i]
    ELSE 0
\* layer j holds the same keys with the same values before and after the step,
\* except possibly for key
SameButFor(j, key) ==
    /\ DOMAIN maps'[j] \ {key} = DOMAIN maps[j] \ {key}
    /\ \A k \in DOMAIN maps[j] \ {key} : maps'[j][k] = maps[j][k]

\* C11: a write of a key updates it in the first layer that holds it, or
\* inserts it into the first layer when none does, and a delete removes it
\* from the first layer that holds it; all other layers and keys stay as they
\* were, and a delete of a key no layer holds raises KeyError and changes
\* nothing.
C11_FirstLayerOnly ==
    [][LET key == last'.arg.s
           found == FirstLayerWith(maps, key)
           target == IF found = 0 THEN 1 ELSE found
       IN  /\ last'.op \in {"__setitem__", "__delitem__"} =>
                /\ Len(maps') = Len(maps)
                /\ \A j \in (1..Len(maps)) \ {target} : maps'[j] = maps[j]
                /\ SameButFor(target, key)
           /\ last'.op = "__setitem__" =>
                /\ last'.res = "ok"
                /\ key \in DOMAIN maps'[target]
                /\ maps'[target][key] = last'.arg.n
           /\ last'.op = "__delitem__" =>
                IF found = 0
                THEN last'.res = "KeyError" /\ maps' = maps
                ELSE last'.res = "ok" /\ key \notin DOMAIN maps'[target]]_vars

\* a write that went past the first layer to the one holding the key
C11_Witness ==
    /\ last.op = "__setitem__"
    /\ Len(maps) >= 2
    /\ last.arg.s \notin DOMAIN maps[1]
    /\ last.arg.s \in DOMAIN maps[2]
    /\ maps[2][last.arg.s] = last.arg.n

====
